---------------------------- MODULE Spec2Model ----------------------------
(***************************************************************************)
(* Raspimon: the sampling / rate engine (DataStore), the control loop      *)
(* (App.run) and the sparkline renderer, as state machines.                *)
(*                                                                         *)
(* Two programs of the repository are modelled:                            *)
(*   src/raspimon.py      (DataStore.update with guarded adapter reads)    *)
(*   src/raspimon_tui.py  (DataStore.update with unguarded reads)          *)
(*                                                                         *)
(* Representation.                                                         *)
(*  - A Python float is held exactly as an integer number of               *)
(*    1/REFRESH_NUM units (REFRESH = REFRESH_NUM/REFRESH_DEN seconds), so  *)
(*    that x / REFRESH is exact for every integer x.                       *)
(*  - "None" and "the call raised" are the empty tuple <<>>, a value v is  *)
(*    the one-element tuple <<v>>.                                         *)
(*  - A str is a tuple of one-character strings; a deque is a tuple, the   *)
(*    oldest element first.                                                *)
(*  - DataStore.time (the deque of timestamps) is appended to and never    *)
(*    read by the program; it is left out.                                 *)
(***************************************************************************)
EXTENDS Integers, Sequences, FiniteSets, TLC

\* ------------------------------------------------------------------ bounds
MaxHist  == 2      \* history_len ranges over 1..MaxHist
MaxTicks == 2      \* DataStore.update runs at most MaxTicks times
MaxLen   == 5      \* sparkline: sample sequences of length 0..MaxLen
MaxWidth == 4      \* sparkline: widths -1..MaxWidth
MaxIters == 3      \* App.run: at most MaxIters iterations of the loop are started

\* --------------------------------------------------------------- constants
REFRESH_NUM == 2   \* REFRESH = 0.4 = 2/5 seconds
REFRESH_DEN == 5
SLEEP_DEN   == 20  \* time.sleep(0.05): the unit of time is 1/20 s
max_clock   == 600 \* 600_000_000 Hz, in MHz

None == <<>>
Some(v) == <<v>>
IsNone(o) == o = <<>>
Val(o) == o[1]

\* A Python number x as held in the model (see Representation).
Float(x) == x * REFRESH_NUM

Last(s) == s[Len(s)]

\* Device names as character tuples.
sda  == <<"s", "d", "a">>
sdb1 == <<"s", "d", "b", "1">>
ram0 == <<"r", "a", "m", "0">>
loop2 == <<"l", "o", "o", "p", "2">>

\* str.startswith
startswith(s, p) == Len(s) >= Len(p) /\ SubSeq(s, 1, Len(p)) = p

\* Mutant of deque_append: a full deque drops its newest element.
deque_append_drop_newest(d, x, maxlen) ==
    IF maxlen = 0 THEN d
    ELSE IF Len(d) >= maxlen THEN SubSeq(d, 1, Len(d) - 1) \o <<x>>
    ELSE d \o <<x>>

\* collections.deque([...], maxlen).append(x): drop the oldest when full.
deque_append(d, x, maxlen) ==
    IF maxlen = 0 THEN d
    ELSE IF Len(d) >= maxlen THEN SubSeq(d, 2, Len(d)) \o <<x>>
    ELSE d \o <<x>>

\* deque([0.0]*history_len, maxlen=history_len)
prefill(n) == [i \in 1..n |-> Float(0)]

VARIABLES
    history_len,        \* DataStore.history_len
    cpu, temp, net_in, net_out, disk_read, disk_write, gpu,   \* the series
    prev_net,           \* DataStore.prev_net: [bytes_recv, bytes_sent]
    prev_disk_perdev,   \* raspimon.py: device -> [read_bytes, write_bytes]
    prev_disk,          \* raspimon_tui.py: option of [read_bytes, write_bytes]
    ticks,              \* number of calls of DataStore.update so far
    appended,           \* history: per series, the values appended so far
    reading,            \* history: per update, what the adapters returned
    before,             \* history: per update, the snapshots it found stored, the loop
                        \* iteration that called it and the time since the last tick
    outcome,            \* history: per update, "returned" or "raised"
    values, width,      \* the arguments of a call of sparkline
    sl, sl_tui,         \* its result in raspimon.py / raspimon_tui.py (None: not called yet)
    running,            \* App.running
    pc,                 \* where App.run is: "while", "sample", "draw", "input", "sleep", "exited"
    elapsed,            \* time.time() - last, in units of 1/SLEEP_DEN s, capped at REFRESH
    selected_widget,    \* App.selected_widget
    theme_name,         \* App.theme_name
    plugins,            \* App.plugins.plugins
    iters,              \* number of loop iterations started
    stop_cause          \* history: what set running to False

store == <<history_len, cpu, temp, net_in, net_out, disk_read, disk_write, gpu,
           prev_net, prev_disk_perdev, prev_disk>>
hist  == <<ticks, appended, reading, before, outcome>>
spark == <<values, width, sl, sl_tui>>
appvars == <<running, pc, elapsed, selected_widget, theme_name, plugins, iters, stop_cause>>
vars  == <<store, hist, spark, appvars>>

SeriesNames == {"cpu", "temp", "net_in", "net_out", "disk_read", "disk_write", "gpu"}

Series == [cpu |-> cpu, temp |-> temp, net_in |-> net_in, net_out |-> net_out,
           disk_read |-> disk_read, disk_write |-> disk_write, gpu |-> gpu]

RECURSIVE SumOver(_, _)
SumOver(S, f) ==
    IF S = {} THEN 0
    ELSE LET d == CHOOSE x \in S : TRUE IN f[d] + SumOver(S \ {d}, f)

\* ---------------------------------------------------- what the host returns
\* psutil.net_io_counters(): system-wide cumulative byte counters.
NetStats ==
    { [bytes_recv |-> 200,  bytes_sent |-> 500],
      [bytes_recv |-> 1000, bytes_sent |-> 500],
      [bytes_recv |-> 1500, bytes_sent |-> 1000] }

\* psutil sdiskio tuples: cumulative bytes read / written.
DiskStats ==
    { [read_bytes |-> 200,  write_bytes |-> 500],
      [read_bytes |-> 1000, write_bytes |-> 500],
      [read_bytes |-> 1500, write_bytes |-> 500],
      [read_bytes |-> 1500, write_bytes |-> 1000] }

\* The counters sampled for the second disk.
Sdb1Stats ==
    { [read_bytes |-> 200,  write_bytes |-> 500],
      [read_bytes |-> 1500, write_bytes |-> 1000] }

RamStats ==
    { [read_bytes |-> 0,   write_bytes |-> 0],
      [read_bytes |-> 800, write_bytes |-> 800] }

RealDevs == {sda, sdb1}
RawDevs  == RealDevs \cup {ram0, loop2}

\* The dicts psutil.disk_io_counters(perdisk=True) can return.
RawDiskDicts ==
    UNION { [D -> DiskStats \cup RamStats] : D \in SUBSET RawDevs }

\* What psutil.disk_io_counters(perdisk=True) returns in a tick (None: it
\* raised).  The ram and loop devices are sampled next to a first disk that is
\* idle or has read 500 bytes.
PerDiskReads ==
    { Some(m) : m \in { d \in RawDiskDicts :
                          /\ \A dev \in DOMAIN d :
                                IF dev \in {ram0, loop2} THEN d[dev] \in RamStats
                                ELSE IF dev = sdb1 THEN d[dev] \in Sdb1Stats
                                ELSE d[dev] \in DiskStats
                          /\ ram0 \in DOMAIN d =>
                                /\ DOMAIN d = {sda, ram0}
                                /\ d[sda].read_bytes >= 1000
                                /\ d[sda].write_bytes = 500
                          /\ loop2 \in DOMAIN d =>
                                /\ DOMAIN d = {sda, loop2}
                                /\ d[sda] = [read_bytes |-> 1000, write_bytes |-> 500] } }
    \cup {None}

\* The probes of one tick: psutil.cpu_percent, shutil.which("vcgencmd"),
\* the parsed output of "vcgencmd measure_temp" and "vcgencmd measure_clock core"
\* (None: the output does not parse), and the entry.current values of
\* psutil.sensors_temperatures() in enumeration order (None: it raised).
\* The clock is in MHz: 300 is "frequency(1)=300000000".
ClockReads == {None, Some(300), Some(0), Some(-300), Some(900)}

ProbeReads ==
    { [cpu_percent |-> Some(50), vcgencmd |-> TRUE, measure_temp |-> t,
       sensors |-> Some(<<0, 40>>), measure_clock |-> g] :
        t \in {None, Some(45)}, g \in ClockReads }
    \cup
    { [cpu_percent |-> Some(50), vcgencmd |-> FALSE, measure_temp |-> None,
       sensors |-> s, measure_clock |-> None] :
        s \in {None, Some(<<>>), Some(<<0, 40>>)} }
    \cup
    { [cpu_percent |-> None, vcgencmd |-> TRUE, measure_temp |-> t,
       sensors |-> Some(<<0, 40>>), measure_clock |-> IF IsNone(t) THEN None ELSE Some(300)] :
        t \in {None, Some(45)} }
    \cup
    { [cpu_percent |-> None, vcgencmd |-> FALSE, measure_temp |-> None,
       sensors |-> None, measure_clock |-> None] }

QuietProbes ==
    [cpu_percent |-> Some(50), vcgencmd |-> TRUE, measure_temp |-> Some(45),
     sensors |-> Some(<<0, 40>>), measure_clock |-> Some(300)]

\* ------------------------------------------------------------- the adapters
RECURSIVE first_nonzero(_)
first_nonzero(entries) ==
    IF entries = <<>> THEN None
    ELSE IF entries[1] # 0 THEN Some(Float(entries[1]))
    ELSE first_nonzero(Tail(entries))

get_pi_temp(p) ==
    IF p.vcgencmd
    THEN IF IsNone(p.measure_temp) THEN None ELSE Some(Float(Val(p.measure_temp)))
    ELSE IF IsNone(p.sensors) THEN None ELSE first_nonzero(Val(p.sensors))

Min(a, b) == IF a <= b THEN a ELSE b

get_gpu_usage(p) ==
    IF p.vcgencmd
    THEN IF IsNone(p.measure_clock) THEN None
         ELSE Some(Min(Float(100), (Float(Val(p.measure_clock)) * 100) \div max_clock))
    ELSE None

safe_disk_counters_perdisk(raw) ==
    LET counters == IF IsNone(raw) THEN <<>> ELSE Val(raw)
        keep == { dev \in DOMAIN counters :
                    ~ (startswith(dev, <<"r", "a", "m">>)
                       \/ startswith(dev, <<"l", "o", "o", "p">>)) }
    IN  [dev \in keep |-> counters[dev]]

\* Mutant of DivRefresh: multiplies by dt.
DivRefresh_times(x) == (Float(x) * REFRESH_NUM) \div REFRESH_DEN

\* x / dt with dt = REFRESH, as a Float.
DivRefresh(x) == (Float(x) * REFRESH_DEN) \div REFRESH_NUM

\* ------------------------------------------------ DataStore of raspimon.py
NetReads == {None} \cup { Some(n) : n \in NetStats }

\* What one call of update reads from the host.  Per tick at most one of the
\* three adapter groups departs from its quiet reading (probes all available,
\* counters unchanged since the previous snapshot).
TickReads ==
    { [probes |-> p, net_io |-> Some(prev_net), disk_io |-> Some(prev_disk_perdev)] :
        p \in ProbeReads }
    \cup
    { [probes |-> QuietProbes, net_io |-> n, disk_io |-> Some(prev_disk_perdev)] :
        n \in NetReads }
    \cup
    { [probes |-> QuietProbes, net_io |-> Some(prev_net), disk_io |-> d] :
        d \in PerDiskReads }

\* The snapshots DataStore.__init__ can take.
InitNet == { [bytes_recv |-> 1000, bytes_sent |-> 500] }
InitDisk ==
    { None,
      Some([dev \in {sda} |-> [read_bytes |-> 1000, write_bytes |-> 500]]),
      Some([dev \in {sda, sdb1, ram0} |->
              IF dev = ram0 THEN [read_bytes |-> 0, write_bytes |-> 0]
              ELSE [read_bytes |-> 1000, write_bytes |-> 500]]) }

NoLog == [n \in SeriesNames |-> <<>>]

InitStore(h) ==
    /\ history_len = h
    /\ cpu = prefill(h) /\ temp = prefill(h)
    /\ net_in = prefill(h) /\ net_out = prefill(h)
    /\ disk_read = prefill(h) /\ disk_write = prefill(h)
    /\ gpu = prefill(h)

InitHist ==
    /\ ticks = 0
    /\ appended = NoLog
    /\ reading = <<>>
    /\ before = <<>>
    /\ outcome = <<>>

NoSparkline == values = <<>> /\ width = 0 /\ sl = None /\ sl_tui = None

\* App.__init__ with the plugins found, up to the first test of the while loop.
InitAppWith(found) ==
    /\ running = TRUE
    /\ pc = "while"
    /\ elapsed = 0
    /\ selected_widget = 0
    /\ theme_name = "dark"
    /\ plugins = found
    /\ iters = 0
    /\ stop_cause = "none"

\* No App: the DataStore and sparkline are driven directly.
NoApp == InitAppWith(<<>>)

Init ==
    /\ NoSparkline /\ NoApp
    /\ \E h \in 1..MaxHist : InitStore(h)
    /\ prev_net \in InitNet
    /\ \E d \in InitDisk : prev_disk_perdev = safe_disk_counters_perdisk(d)
    /\ prev_disk = None
    /\ InitHist

\* Mutant of net_rates: the stored snapshot is not replaced.
net_rates_keep_prev(now_net, prev) ==
    IF IsNone(now_net)
    THEN [in_rate |-> Float(0), out_rate |-> Float(0), prev_net |-> prev]
    ELSE [in_rate  |-> DivRefresh(Val(now_net).bytes_recv - prev.bytes_recv),
          out_rate |-> DivRefresh(Val(now_net).bytes_sent - prev.bytes_sent),
          prev_net |-> prev]

\* Lines 183-191: the network rates, and the snapshot kept for the next tick
\* (now_net is None when psutil.net_io_counters() raised or returned None).
net_rates(now_net, prev) ==
    IF IsNone(now_net)
    THEN [in_rate |-> Float(0), out_rate |-> Float(0), prev_net |-> prev]
    ELSE [in_rate  |-> DivRefresh(Val(now_net).bytes_recv - prev.bytes_recv),
          out_rate |-> DivRefresh(Val(now_net).bytes_sent - prev.bytes_sent),
          prev_net |-> Val(now_net)]

\* Mutant of disk_totals: a device the previous snapshot lacks counts from zero.
disk_totals_count_new(now_perdev, prev_perdev) ==
    LET was(dev) == IF dev \in DOMAIN prev_perdev THEN prev_perdev[dev]
                    ELSE [read_bytes |-> 0, write_bytes |-> 0]
        devs == DOMAIN now_perdev
    IN  [total_read  |-> SumOver(devs, [dev \in devs |->
                            now_perdev[dev].read_bytes - was(dev).read_bytes]),
         total_write |-> SumOver(devs, [dev \in devs |->
                            now_perdev[dev].write_bytes - was(dev).write_bytes])]

\* Lines 199-209: the deltas summed over the devices of the current snapshot
\* that the previous snapshot has too.
disk_totals(now_perdev, prev_perdev) ==
    LET tracked == { dev \in DOMAIN now_perdev : dev \in DOMAIN prev_perdev }
    IN  [total_read  |-> SumOver(tracked, [dev \in tracked |->
                            now_perdev[dev].read_bytes - prev_perdev[dev].read_bytes]),
         total_write |-> SumOver(tracked, [dev \in tracked |->
                            now_perdev[dev].write_bytes - prev_perdev[dev].write_bytes])]

\* self.<n>.append(vs[n]) for the series n of S, in the order of the code;
\* the other series are left as they are.
AppendTo(S, vs) ==
    LET put(n, d) == IF n \in S THEN deque_append(d, vs[n], history_len) ELSE d
    IN  /\ cpu'        = put("cpu",        cpu)
        /\ temp'       = put("temp",       temp)
        /\ net_in'     = put("net_in",     net_in)
        /\ net_out'    = put("net_out",    net_out)
        /\ disk_read'  = put("disk_read",  disk_read)
        /\ disk_write' = put("disk_write", disk_write)
        /\ gpu'        = put("gpu",        gpu)
        /\ appended'   = [n \in SeriesNames |->
                            IF n \in S THEN Append(appended[n], vs[n]) ELSE appended[n]]

\* DataStore.update of raspimon.py, lines 169-228.
update(r) ==
    LET p    == r.probes
        cpuv == IF IsNone(p.cpu_percent) THEN Float(0) ELSE Float(Val(p.cpu_percent))
        t    == get_pi_temp(p)
        tmp  == IF IsNone(t) THEN Float(0) ELSE Val(t)
        net  == net_rates(r.net_io, prev_net)
        now_perdev == safe_disk_counters_perdisk(r.disk_io)
        tot  == disk_totals(now_perdev, prev_disk_perdev)
        g    == get_gpu_usage(p)
        gpuv == IF IsNone(g) THEN Float(0) ELSE Val(g)
    IN  /\ AppendTo(SeriesNames,
                   [cpu |-> cpuv, temp |-> tmp,
                    net_in |-> net.in_rate, net_out |-> net.out_rate,
                    disk_read  |-> DivRefresh(tot.total_read),
                    disk_write |-> DivRefresh(tot.total_write),
                    gpu |-> gpuv])
        /\ prev_net' = net.prev_net
        /\ prev_disk_perdev' = now_perdev
        /\ reading' = Append(reading,
                         [probes |-> p, net_io |-> r.net_io,
                          disk_ok |-> ~ IsNone(r.disk_io), disk_io |-> r.disk_io,
                          now_perdev |-> now_perdev])
        /\ before' = Append(before,
                        [prev_net |-> prev_net, prev_disk_perdev |-> prev_disk_perdev,
                         iters |-> iters, elapsed |-> elapsed])
        /\ outcome' = Append(outcome, "returned")
        /\ ticks' = ticks + 1
        /\ UNCHANGED <<history_len, prev_disk>>

Update ==
    /\ ticks < MaxTicks
    /\ \E r \in TickReads : update(r)
    /\ UNCHANGED <<spark, appvars>>

Next == Update

Spec == Init /\ [][Next]_vars

\* -------------------------------------------- DataStore of raspimon_tui.py
\* psutil.disk_io_counters() for the per-device counters raw of the host: the
\* system-wide counters, every device summed; None when the host has none.
disk_io_counters(raw) ==
    IF DOMAIN raw = {} THEN None
    ELSE Some([read_bytes  |-> SumOver(DOMAIN raw,
                                  [dev \in DOMAIN raw |-> raw[dev].read_bytes]),
               write_bytes |-> SumOver(DOMAIN raw,
                                  [dev \in DOMAIN raw |-> raw[dev].write_bytes])])

\* The per-device counters of the host behind one call of
\* psutil.disk_io_counters() (None: the call raises).
DiskReadsTui ==
    {None} \cup
    { Some(m) : m \in { d \in RawDiskDicts :
                          /\ DOMAIN d \subseteq {sda, ram0}
                          /\ \A dev \in DOMAIN d :
                                IF dev = ram0 THEN d[dev] \in RamStats
                                ELSE d[dev] \in DiskStats } }

\* The host's disk counters have not moved since the previous tick.
QuietDiskTui ==
    IF reading # <<>> /\ ~ IsNone(Last(reading).disk_io)
    THEN Last(reading).disk_io
    ELSE IF IsNone(prev_disk) THEN Some(<<>>)
    ELSE Some([dev \in {sda} |-> Val(prev_disk)])

TickReadsTui ==
    { [probes |-> p, net_io |-> Some(prev_net), disk_io |-> QuietDiskTui] :
        p \in ProbeReads }
    \cup
    { [probes |-> QuietProbes, net_io |-> n, disk_io |-> QuietDiskTui] :
        n \in NetReads }
    \cup
    { [probes |-> QuietProbes, net_io |-> Some(prev_net), disk_io |-> d] :
        d \in DiskReadsTui }

InitDiskTui == {None, Some([read_bytes |-> 1000, write_bytes |-> 500])}

InitTui ==
    /\ NoSparkline /\ NoApp
    /\ \E h \in 1..MaxHist : InitStore(h)
    /\ prev_net \in InitNet
    /\ prev_disk \in InitDiskTui
    /\ prev_disk_perdev = <<>>
    /\ InitHist

\* Lines 177-185: the system-wide disk rates.  raised: now_disk is a tuple and
\* self.prev_disk is None (AttributeError).
disk_rates_tui(now_disk, prev) ==
    IF IsNone(now_disk)
    THEN [raised |-> FALSE, read_rate |-> Float(0), write_rate |-> Float(0),
          prev_disk |-> prev]
    ELSE IF IsNone(prev)
    THEN [raised |-> TRUE, read_rate |-> Float(0), write_rate |-> Float(0),
          prev_disk |-> prev]
    ELSE [raised |-> FALSE,
          read_rate  |-> DivRefresh(Val(now_disk).read_bytes - Val(prev).read_bytes),
          write_rate |-> DivRefresh(Val(now_disk).write_bytes - Val(prev).write_bytes),
          prev_disk  |-> now_disk]

\* DataStore.update of raspimon_tui.py, lines 153-196.  The reads of the
\* network and disk counters are not guarded: when one raises, update is left
\* with the series appended so far.
update_tui(r) ==
    LET p    == r.probes
        cpuv == IF IsNone(p.cpu_percent) THEN Float(0) ELSE Float(Val(p.cpu_percent))
        t    == get_pi_temp(p)
        tmp  == IF IsNone(t) THEN Float(0) ELSE Val(t)
        net_raises == IsNone(r.net_io)
        net  == net_rates(r.net_io, prev_net)
        dsk  == IF IsNone(r.disk_io)
                THEN [raised |-> TRUE, read_rate |-> Float(0),
                      write_rate |-> Float(0), prev_disk |-> prev_disk]
                ELSE disk_rates_tui(disk_io_counters(Val(r.disk_io)), prev_disk)
        g    == get_gpu_usage(p)
        gpuv == IF IsNone(g) THEN Float(0) ELSE Val(g)
        vs   == [cpu |-> cpuv, temp |-> tmp,
                 net_in |-> net.in_rate, net_out |-> net.out_rate,
                 disk_read |-> dsk.read_rate, disk_write |-> dsk.write_rate,
                 gpu |-> gpuv]
    IN  /\ IF net_raises
           THEN /\ AppendTo({"cpu", "temp"}, vs)
                /\ UNCHANGED <<prev_net, prev_disk>>
                /\ outcome' = Append(outcome, "raised")
           ELSE IF dsk.raised
           THEN /\ AppendTo({"cpu", "temp", "net_in", "net_out"}, vs)
                /\ prev_net' = net.prev_net
                /\ UNCHANGED prev_disk
                /\ outcome' = Append(outcome, "raised")
           ELSE /\ AppendTo(SeriesNames, vs)
                /\ prev_net' = net.prev_net
                /\ prev_disk' = dsk.prev_disk
                /\ outcome' = Append(outcome, "returned")
        /\ reading' = Append(reading,
                         [probes |-> p, net_io |-> r.net_io,
                          disk_ok |-> ~ IsNone(r.disk_io), disk_io |-> r.disk_io])
        /\ before' = Append(before, [prev_net |-> prev_net, prev_disk |-> prev_disk,
                                     iters |-> iters, elapsed |-> elapsed])
        /\ ticks' = ticks + 1
        /\ UNCHANGED <<history_len, prev_disk_perdev>>

UpdateTui ==
    /\ ticks < MaxTicks
    /\ \E r \in TickReadsTui : update_tui(r)
    /\ UNCHANGED <<spark, appvars>>

NextTui == UpdateTui

SpecTui == InitTui /\ [][NextTui]_vars

\* ---------------------------------------------------------------- sparkline
\* The glyph ramp "▁▂▃▄▅▆▇█", lowest first, written as the digits 1..8.
SPARK_CHARS == <<"1", "2", "3", "4", "5", "6", "7", "8">>

SeqMin(v) == CHOOSE m \in {v[i] : i \in 1..Len(v)} : \A i \in 1..Len(v) : m <= v[i]
SeqMax(v) == CHOOSE m \in {v[i] : i \in 1..Len(v)} : \A i \in 1..Len(v) : m >= v[i]

Spaces(n) == [i \in 1..n |-> " "]

\* Mutant of spark_index: normalises against 0 instead of the minimum.
spark_index_from_zero(v, mn, mx) == IF mx = 0 THEN 0 ELSE (v * (Len(SPARK_CHARS) - 1)) \div mx

\* Lines 117 and 122: int(((v - mn) / rng) * (len(SPARK_CHARS)-1)), 0-based.
spark_index(v, mn, mx) ==
    LET rng == IF mx # mn THEN mx - mn ELSE 1
    IN  ((v - mn) * (Len(SPARK_CHARS) - 1)) \div rng

\* Lines 119-123: the glyphs of values[i] for i in range(from, len(values), step)
\* (from is 0-based).
RECURSIVE spark_loop(_, _, _, _, _)
spark_loop(vals, from, step, mn, mx) ==
    IF from >= Len(vals) THEN <<>>
    ELSE <<SPARK_CHARS[spark_index(vals[from + 1], mn, mx) + 1]>>
         \o spark_loop(vals, from + step, step, mn, mx)

\* Mutant of keep_last: keeps the first w characters.
keep_first(s, w) == IF Len(s) > w THEN SubSeq(s, 1, w) ELSE s

\* Lines 125-126: if len(s) > width: s = s[-width:]
keep_last(s, w) == IF Len(s) > w THEN SubSeq(s, Len(s) - w + 1, Len(s)) ELSE s

\* Mutant of rjust: pads at the end.
ljust(s, w) == IF Len(s) >= w THEN s ELSE s \o Spaces(w - Len(s))

\* Mutant of rjust: no padding.
no_just(s, w) == s

\* str.rjust(width)
rjust(s, w) == IF Len(s) >= w THEN s ELSE Spaces(w - Len(s)) \o s

Max(a, b) == IF a >= b THEN a ELSE b

\* sparkline of raspimon.py, lines 110-127.
sparkline(vals, w) ==
    IF w <= 0 THEN <<>>
    ELSE IF vals = <<>> THEN Spaces(w)
    ELSE LET mn   == SeqMin(vals)
             mx   == SeqMax(vals)
             step == Max(1, Len(vals) \div w)
             out  == spark_loop(vals, 0, step, mn, mx)
         IN  rjust(keep_last(out, w), w)

\* sparkline of raspimon_tui.py, lines 227-243.
sparkline_tui(vals, w) ==
    IF w <= 0 THEN <<>>
    ELSE LET mn   == IF vals # <<>> THEN SeqMin(vals) ELSE 0
             mx   == IF vals # <<>> THEN SeqMax(vals) ELSE 1
             step == Max(1, Len(vals) \div w)
             out  == spark_loop(vals, 0, step, mn, mx)
         IN  rjust(keep_last(out, w), w)

\* The samples and widths sparkline is called with.
SampleVals == {0, 5, 7}
SampleSeqs == UNION { [1..n -> SampleVals] : n \in 0..MaxLen }

InitSpark ==
    /\ values \in SampleSeqs
    /\ width \in -1..MaxWidth
    /\ sl = None /\ sl_tui = None
    /\ NoApp
    /\ InitStore(1)
    /\ prev_net = [bytes_recv |-> 200, bytes_sent |-> 500]
    /\ prev_disk_perdev = <<>>
    /\ prev_disk = None
    /\ InitHist

Sparkline ==
    /\ IsNone(sl)
    /\ sl' = Some(sparkline(values, width))
    /\ sl_tui' = Some(sparkline_tui(values, width))
    /\ UNCHANGED <<values, width, store, hist, appvars>>

NextSpark == Sparkline

SpecSpark == InitSpark /\ [][NextSpark]_vars

\* ------------------------------------------------------------------ App.run
\* REFRESH in units of 1/SLEEP_DEN s.
REFRESH_UNITS == (REFRESH_NUM * SLEEP_DEN) \div REFRESH_DEN

THEMES  == <<"dark", "light", "solar">>
widgets == <<"CPU", "Temp", "Net", "SD IO", "GPU", "Fan/Power", "Plugins">>

IndexOf(seq, x) == CHOOSE i \in 1..Len(seq) : seq[i] = x

\* What stdscr.getch() returns: "none" is -1, "x" any key without a binding.
Keys == {"none", "q", "Q", "KEY_RIGHT", "l", "KEY_LEFT", "h", "t", "r", "x"}

\* What PluginManager.discover_and_load can find and load.
PluginDirs == {<<>>, <<"plug">>}

\* Terminal widths (stdscr.getmaxyx()[1]).
TermWidths == {37, 120}

\* draw_main, lines 340 and 344: the width of the CPU sparkline.
cpu_spark_width(term_w) ==
    LET side   == Max(28, (term_w * 22) \div 100)
        main_w == term_w - side - 2
    IN  Min(60, main_w - 6)

\* The reads of the ticks of the loop: a quiet host, and each read failing.
LoopReads ==
    { r \in TickReads :
        \/ r = [probes |-> QuietProbes, net_io |-> Some(prev_net),
                disk_io |-> Some(prev_disk_perdev)]
        \/ IsNone(r.net_io)
        \/ IsNone(r.disk_io)
        \/ (IsNone(r.probes.cpu_percent) /\ IsNone(get_pi_temp(r.probes))
            /\ r.probes.vcgencmd) }

LoopReadsTui ==
    { r \in TickReadsTui :
        \/ r = [probes |-> QuietProbes, net_io |-> Some(prev_net),
                disk_io |-> QuietDiskTui]
        \/ IsNone(r.net_io)
        \/ IsNone(r.disk_io)
        \/ (IsNone(r.probes.cpu_percent) /\ IsNone(get_pi_temp(r.probes))
            /\ r.probes.vcgencmd) }

InitApp ==
    /\ NoSparkline
    /\ \E found \in PluginDirs : InitAppWith(found)
    /\ InitStore(MaxHist)
    /\ prev_net = [bytes_recv |-> 1000, bytes_sent |-> 500]
    /\ prev_disk_perdev = [dev \in {sda} |-> [read_bytes |-> 1000, write_bytes |-> 500]]
    /\ prev_disk = None
    /\ InitHist

InitAppTui ==
    /\ NoSparkline
    /\ \E found \in PluginDirs : InitAppWith(found)
    /\ InitStore(MaxHist)
    /\ prev_net = [bytes_recv |-> 1000, bytes_sent |-> 500]
    /\ prev_disk = Some([read_bytes |-> 1000, write_bytes |-> 500])
    /\ prev_disk_perdev = <<>>
    /\ InitHist

\* Mutant of due: a tick in every iteration.
due_always(el) == TRUE

\* Line 438: now - last >= REFRESH.
due(el) == el >= REFRESH_UNITS

\* Mutant of Stop: the handler sets the flag and the iteration goes on.
Stop_goes_on(cause) ==
    /\ running' = FALSE
    /\ stop_cause' = cause
    /\ pc' = "draw"

\* The except clauses of App.run (lines 449-461): running = False.
Stop(cause) ==
    /\ running' = FALSE
    /\ stop_cause' = cause
    /\ pc' = "while"

\* while self.running:
LoopTest ==
    /\ pc = "while"
    /\ IF running
       THEN iters < MaxIters /\ iters' = iters + 1 /\ pc' = "sample"
       ELSE iters' = iters /\ pc' = "exited"
    /\ UNCHANGED <<store, hist, spark, running, elapsed, selected_widget,
                   theme_name, plugins, stop_cause>>

\* Lines 436-440 of raspimon.py: now = time.time(); if now - last >= REFRESH:
\* self.data.update(); last = now.
Sample ==
    /\ pc = "sample"
    /\ IF due(elapsed)
       THEN /\ ticks < MaxTicks
            /\ \E r \in LoopReads : update(r)
            /\ elapsed' = 0
       ELSE UNCHANGED <<store, hist, elapsed>>
    /\ pc' = "draw"
    /\ UNCHANGED <<spark, running, selected_widget, theme_name, plugins, iters,
                   stop_cause>>

\* Lines 436-440 of raspimon.py as written in raspimon_tui.py (444-447): an
\* exception leaving update reaches the except clause of run.
SampleTui ==
    /\ pc = "sample"
    /\ IF due(elapsed)
       THEN /\ ticks < MaxTicks
            /\ \E r \in LoopReadsTui : update_tui(r)
            /\ IF Last(outcome') = "raised"
               THEN Stop("update") /\ elapsed' = elapsed
               ELSE /\ elapsed' = 0 /\ pc' = "draw"
                    /\ UNCHANGED <<running, stop_cause>>
       ELSE /\ pc' = "draw"
            /\ UNCHANGED <<store, hist, elapsed, running, stop_cause>>
    /\ UNCHANGED <<spark, selected_widget, theme_name, plugins, iters>>

\* Mutant of draw_main: the sparkline is drawn from the deque itself and
\* consumes it.
draw_main_drains(term_w) ==
    /\ values' = cpu
    /\ width' = cpu_spark_width(term_w)
    /\ sl' = Some(sparkline(cpu, cpu_spark_width(term_w)))
    /\ sl_tui' = Some(sparkline_tui(cpu, cpu_spark_width(term_w)))
    /\ cpu' = <<>>
    /\ UNCHANGED <<history_len, temp, net_in, net_out, disk_read, disk_write, gpu,
                   prev_net, prev_disk_perdev, prev_disk>>

\* draw_main, lines 344-345: sl = sparkline(list(self.data.cpu), min(60, main_w-6)),
\* from a copy of the series.
draw_main(term_w) ==
    /\ values' = cpu
    /\ width' = cpu_spark_width(term_w)
    /\ sl' = Some(sparkline(cpu, cpu_spark_width(term_w)))
    /\ sl_tui' = Some(sparkline_tui(cpu, cpu_spark_width(term_w)))
    /\ UNCHANGED store

\* Lines 441-446: erase, draw_header, draw_sidebar, draw_main, draw_footer,
\* refresh.  The CPU sparkline drawn is kept in sl; an exception that leaves
\* a draw call (psutil.virtual_memory in draw_sidebar; any addstr in
\* raspimon_tui.py) reaches the except clause of run.
Draw ==
    /\ pc = "draw"
    /\ \E ok \in BOOLEAN, term_w \in TermWidths :
          IF ok
          THEN /\ draw_main(term_w)
               /\ pc' = "input"
               /\ UNCHANGED <<running, stop_cause>>
          ELSE /\ Stop("draw")
               /\ UNCHANGED <<spark, store>>
    /\ UNCHANGED <<hist, elapsed, selected_widget, theme_name, plugins, iters>>

\* App.handle_input, lines 412-428.
HandleInput ==
    /\ pc = "input"
    /\ \E ch \in Keys, found \in PluginDirs :
          /\ running' = IF ch \in {"q", "Q"} THEN FALSE ELSE running
          /\ stop_cause' = IF ch \in {"q", "Q"} THEN "quit" ELSE stop_cause
          /\ selected_widget' =
                IF ch \in {"KEY_RIGHT", "l"} THEN (selected_widget + 1) % Len(widgets)
                ELSE IF ch \in {"KEY_LEFT", "h"} THEN (selected_widget - 1) % Len(widgets)
                ELSE selected_widget
          /\ theme_name' =
                IF ch = "t" THEN THEMES[(IndexOf(THEMES, theme_name) % Len(THEMES)) + 1]
                ELSE theme_name
          /\ plugins' = IF ch = "r" THEN found ELSE plugins
    /\ pc' = "sleep"
    /\ UNCHANGED <<store, hist, spark, elapsed, iters>>

\* time.sleep(0.05), and the time the rest of the iteration took: the
\* iteration lasted half a refresh period, or a whole one.
Sleep ==
    /\ pc = "sleep"
    /\ \E d \in {REFRESH_UNITS \div 2, REFRESH_UNITS} :
          elapsed' = Min(elapsed + d, REFRESH_UNITS)
    /\ pc' = "while"
    /\ UNCHANGED <<store, hist, spark, running, selected_widget, theme_name,
                   plugins, iters, stop_cause>>

\* except KeyboardInterrupt (line 449): Ctrl-C between two steps of an iteration.
Interrupt ==
    /\ pc \in {"sample", "draw", "input", "sleep"}
    /\ Stop("interrupt")
    /\ UNCHANGED <<store, hist, spark, elapsed, selected_widget, theme_name,
                   plugins, iters>>

NextApp == LoopTest \/ Sample \/ Draw \/ HandleInput \/ Sleep \/ Interrupt

SpecApp == InitApp /\ [][NextApp]_vars

NextAppTui == LoopTest \/ SampleTui \/ Draw \/ HandleInput \/ Sleep \/ Interrupt

SpecAppTui == InitAppTui /\ [][NextAppTui]_vars

\* ================================================================== claims
LastN(s, n) == SubSeq(s, Len(s) - n + 1, Len(s))

RateSeries == {"net_in", "net_out", "disk_read", "disk_write"}

\* rate * dt = bytes, with rate a Float and dt = REFRESH.
RateTimesDtIs(rate, bytes) == rate * REFRESH_NUM = Float(bytes) * REFRESH_DEN

\* The devices update k found in both snapshots, and their summed deltas.
SharedDevs(k) == DOMAIN reading[k].now_perdev \cap DOMAIN before[k].prev_disk_perdev
ReadDelta(k, S) ==
    SumOver(S, [d \in S |-> reading[k].now_perdev[d].read_bytes
                            - before[k].prev_disk_perdev[d].read_bytes])
WriteDelta(k, S) ==
    SumOver(S, [d \in S |-> reading[k].now_perdev[d].write_bytes
                            - before[k].prev_disk_perdev[d].write_bytes])

\* C1: every series always has length history_len, and holds, in order, the
\* last history_len elements of (history_len zeros followed by everything
\* appended to it so far).
C1_BoundedHistory ==
    \A n \in SeriesNames :
        /\ Len(Series[n]) = history_len
        /\ Series[n] = LastN([i \in 1..history_len |-> 0] \o appended[n], history_len)

\* C1 witness: more values appended than the capacity, the evicted one differing.
C1_Witness ==
    /\ history_len = 1
    /\ Len(appended["cpu"]) = 2
    /\ appended["cpu"][1] # appended["cpu"][2]
    /\ cpu = <<appended["cpu"][2]>>

\* C2: every value held by net_in, net_out, disk_read and disk_write is >= 0
\* (a counter that went down gives rate 0, not a negative rate).
C2_NonNegativeRates ==
    \A n \in RateSeries : \A i \in 1..Len(Series[n]) : Series[n][i] >= 0

\* C4: in every update, the devices the previous snapshot lacks add nothing to
\* the read/write totals; a device first seen by update k-1 and still present
\* in update k is counted by update k with its full delta since update k-1;
\* and the snapshot stored by an update holds exactly the devices of its
\* current snapshot (a device that disappeared is dropped).
C4_DeviceChurn ==
    \A k \in 1..Len(reading) :
        LET now  == reading[k].now_perdev
            prev == before[k].prev_disk_perdev
            kept == IF k < Len(reading) THEN before[k + 1].prev_disk_perdev
                    ELSE prev_disk_perdev
        IN  /\ (DOMAIN now \ DOMAIN prev # {} \/ DOMAIN prev \ DOMAIN now # {}) =>
                  /\ RateTimesDtIs(appended["disk_read"][k], ReadDelta(k, SharedDevs(k)))
                  /\ RateTimesDtIs(appended["disk_write"][k], WriteDelta(k, SharedDevs(k)))
            /\ SharedDevs(k) = {} =>
                  /\ appended["disk_read"][k] = 0
                  /\ appended["disk_write"][k] = 0
            /\ \A d \in DOMAIN now :
                  (/\ k >= 2
                   /\ d \in DOMAIN reading[k - 1].now_perdev
                   /\ d \notin DOMAIN before[k - 1].prev_disk_perdev) =>
                      /\ d \in SharedDevs(k)
                      /\ RateTimesDtIs(appended["disk_read"][k],
                             ReadDelta(k, SharedDevs(k) \ {d})
                             + now[d].read_bytes
                             - reading[k - 1].now_perdev[d].read_bytes)
                      /\ RateTimesDtIs(appended["disk_write"][k],
                             WriteDelta(k, SharedDevs(k) \ {d})
                             + now[d].write_bytes
                             - reading[k - 1].now_perdev[d].write_bytes)
            /\ kept = now

\* C4 witness: sdb1 is new to update 1 (with non-zero counters, next to sda),
\* is counted by update 2, and sda has disappeared in update 2.
C4_Witness ==
    /\ Len(reading) = 2
    /\ DOMAIN before[1].prev_disk_perdev = {sda}
    /\ DOMAIN reading[1].now_perdev = {sda, sdb1}
    /\ DOMAIN reading[2].now_perdev = {sdb1}
    /\ reading[2].now_perdev[sdb1].read_bytes
         > reading[1].now_perdev[sdb1].read_bytes
    /\ appended["disk_read"][2] > 0
    /\ DOMAIN prev_disk_perdev = {sdb1}

\* C5: when no counter of a device present in both snapshots went down, the
\* disk read (write) rate appended by an update times REFRESH equals the sum of
\* the read (write) deltas of those devices; likewise the network rates from
\* the two system-wide snapshots.  With previous sda = (1000, 500) and current
\* sda = (1500, 500) the appended rates are 500 / 0.4 = 1250 and 0.
C5_RateFormula ==
    \A k \in 1..Len(reading) :
        LET now  == reading[k].now_perdev
            prev == before[k].prev_disk_perdev
            S    == SharedDevs(k)
            nn   == reading[k].net_io
            pn   == Some(before[k].prev_net)
        IN  /\ (\A d \in S : /\ now[d].read_bytes >= prev[d].read_bytes
                             /\ now[d].write_bytes >= prev[d].write_bytes) =>
                  /\ RateTimesDtIs(appended["disk_read"][k], ReadDelta(k, S))
                  /\ RateTimesDtIs(appended["disk_write"][k], WriteDelta(k, S))
            /\ (/\ ~ IsNone(nn) /\ ~ IsNone(pn)
                /\ Val(nn).bytes_recv >= Val(pn).bytes_recv
                /\ Val(nn).bytes_sent >= Val(pn).bytes_sent) =>
                  /\ RateTimesDtIs(appended["net_in"][k],
                                   Val(nn).bytes_recv - Val(pn).bytes_recv)
                  /\ RateTimesDtIs(appended["net_out"][k],
                                   Val(nn).bytes_sent - Val(pn).bytes_sent)
            /\ (/\ prev = [d \in {sda} |-> [read_bytes |-> 1000, write_bytes |-> 500]]
                /\ now  = [d \in {sda} |-> [read_bytes |-> 1500, write_bytes |-> 500]]) =>
                  /\ appended["disk_read"][k] = Float(1250)
                  /\ appended["disk_write"][k] = Float(0)

\* C5 witness: the example snapshots, and a tick with network traffic.
C5_Witness ==
    /\ Len(reading) = 2
    /\ before[1].prev_disk_perdev
         = [d \in {sda} |-> [read_bytes |-> 1000, write_bytes |-> 500]]
    /\ reading[1].now_perdev
         = [d \in {sda} |-> [read_bytes |-> 1500, write_bytes |-> 500]]
    /\ appended["disk_read"][1] = Float(1250)
    /\ ~ IsNone(reading[2].net_io)
    /\ appended["net_in"][2] > 0 /\ appended["net_out"][2] > 0

\* The updates so far that returned.
Returned == { k \in 1..Len(outcome) : outcome[k] = "returned" }

\* C3: a tick is atomic: every series has received exactly one value per
\* update that returned and none from an update that was left by an error.
C3_AtomicTick ==
    \A n \in SeriesNames : Len(appended[n]) = Cardinality(Returned)

\* C6: an update whose read of the network counters or of the disk counters
\* fails returns normally, appends exactly one value to every series (which
\* keep length history_len) and appends 0 as the rates of the failed read.
C6_ReadFailureIsZero ==
    \A k \in 1..Len(reading) :
        (IsNone(reading[k].net_io) \/ ~ reading[k].disk_ok) =>
            /\ outcome[k] = "returned"
            /\ \A n \in SeriesNames :
                  Len(appended[n]) = Len(reading) /\ Len(Series[n]) = history_len
            /\ IsNone(reading[k].net_io) =>
                  appended["net_in"][k] = 0 /\ appended["net_out"][k] = 0
            /\ ~ reading[k].disk_ok =>
                  appended["disk_read"][k] = 0 /\ appended["disk_write"][k] = 0

\* sparkline has been called: its results in the two scripts.
Called == ~ IsNone(sl)
Out    == Val(sl)
OutTui == Val(sl_tui)

IsConstant(v) == v # <<>> /\ \A i \in 1..Len(v) : v[i] = v[1]

\* C8: sparkline returns exactly width characters for every width >= 0 and
\* every sample sequence, and the empty string for width <= 0 (in both scripts).
C8_ExactWidth ==
    Called =>
        /\ width >= 0 => Len(Out) = width /\ Len(OutTui) = width
        /\ width <= 0 => Out = <<>> /\ OutTui = <<>>

\* C8 witness: a non-empty sequence shorter than the width has been rendered.
C8_Witness ==
    /\ Called
    /\ 0 < Len(values) /\ Len(values) < width
    /\ Len(Out) = width

\* C9 as stated: for width W >= 1 and a non-empty constant sequence of any
\* length, sparkline returns W copies of the lowest glyph.
C9_ConstantAllLowest ==
    (Called /\ width >= 1 /\ IsConstant(values)) =>
        Out = [i \in 1..width |-> SPARK_CHARS[1]]

\* C9 as amended: for width W >= 1 and a non-empty constant sequence of
\* length n, sparkline returns W copies of the lowest glyph when n >= W, and
\* W - n spaces followed by n copies of the lowest glyph when n < W.
C9_ConstantLowestPadded ==
    (Called /\ width >= 1 /\ IsConstant(values)) =>
        LET n == Len(values)
        IN  IF n >= width
            THEN Out = [i \in 1..width |-> SPARK_CHARS[1]]
            ELSE Out = [i \in 1..width |->
                          IF i <= width - n THEN " " ELSE SPARK_CHARS[1]]

\* C9 witness: a constant non-zero sequence longer than the width, rendered.
C9_Witness ==
    /\ Called
    /\ width = 2 /\ Len(values) = 5
    /\ IsConstant(values) /\ values[1] = 5
    /\ Out = <<SPARK_CHARS[1], SPARK_CHARS[1]>>

\* The glyph of sample number i (1-based) of values.
GlyphOf(i) ==
    SPARK_CHARS[spark_index(values[i], SeqMin(values), SeqMax(values)) + 1]

\* C10: with stride = max(1, floor(n / width)) and k the number of indices
\* 0, stride, 2*stride, ... below n, the output is: for k > width the glyphs
\* of the last width selected samples; else width - k spaces followed by the
\* glyphs of the k selected samples (width spaces for the empty sequence).
C10_TrimFrontPadFront ==
    (Called /\ width >= 1) =>
        LET n      == Len(values)
            stride == IF n \div width >= 1 THEN n \div width ELSE 1
            k      == IF n = 0 THEN 0 ELSE ((n - 1) \div stride) + 1
            sel(j) == 1 + (j - 1) * stride
        IN  /\ Len(Out) = width
            /\ IF k > width
               THEN \A i \in 1..width : Out[i] = GlyphOf(sel(k - width + i))
               ELSE /\ \A i \in 1..(width - k) : Out[i] = " "
                    /\ \A i \in 1..k : Out[width - k + i] = GlyphOf(sel(i))

\* C10 witness: 5 samples at width 2 give 3 glyphs, of which the oldest,
\* different from the other two, is dropped.
C10_Witness ==
    /\ Called
    /\ width = 2 /\ values = <<7, 0, 0, 0, 5>>
    /\ Out = <<SPARK_CHARS[1], SPARK_CHARS[6]>>

\* Update k met an error while sampling a metric.
SamplingError(k) ==
    \/ IsNone(reading[k].probes.cpu_percent)
    \/ IsNone(get_pi_temp(reading[k].probes))
    \/ IsNone(get_gpu_usage(reading[k].probes))
    \/ IsNone(reading[k].net_io)
    \/ ~ reading[k].disk_ok

\* C7: an error raised while sampling a metric never ends the control loop:
\* the update returns with zero for that metric, and run does not set
\* running to False because of it.
C7_SamplingErrorKeepsRunning ==
    /\ stop_cause # "update"
    /\ \A k \in 1..Len(reading) :
          SamplingError(k) =>
              /\ outcome[k] = "returned"
              /\ IsNone(reading[k].probes.cpu_percent) => appended["cpu"][k] = 0
              /\ IsNone(get_pi_temp(reading[k].probes)) => appended["temp"][k] = 0
              /\ IsNone(get_gpu_usage(reading[k].probes)) => appended["gpu"][k] = 0
              /\ IsNone(reading[k].net_io) =>
                    appended["net_in"][k] = 0 /\ appended["net_out"][k] = 0
              /\ ~ reading[k].disk_ok =>
                    appended["disk_read"][k] = 0 /\ appended["disk_write"][k] = 0
    /\ (pc = "draw" /\ stop_cause = "none") => running

\* A ram or loop device.
Virtual(dev) ==
    startswith(dev, <<"r", "a", "m">>) \/ startswith(dev, <<"l", "o", "o", "p">>)

\* The counters of the host without its ram and loop devices.
RealPart(raw) == [dev \in { d \in DOMAIN raw : ~ Virtual(d) } |-> raw[dev]]

\* Updates k - 1 and k read the same counters for every device that is not a
\* ram or loop device, and every update up to k returned.
SameRealCounters(k) ==
    /\ \A j \in 1..k : outcome[j] = "returned"
    /\ ~ IsNone(reading[k - 1].disk_io) /\ ~ IsNone(reading[k].disk_io)
    /\ RealPart(Val(reading[k - 1].disk_io)) = RealPart(Val(reading[k].disk_io))

\* C11: ram and loop devices are never in the stored per-device snapshot and
\* never contribute to the disk rates: when two consecutive updates read the
\* same counters for every other device, the second appends the rates 0 and 0,
\* whatever the ram and loop counters did in between.
C11_VirtualDevicesExcluded ==
    /\ \A dev \in DOMAIN prev_disk_perdev : ~ Virtual(dev)
    /\ \A k \in 2..Len(reading) :
          SameRealCounters(k) =>
              /\ appended["disk_read"][k] = Float(0)
              /\ appended["disk_write"][k] = Float(0)

\* The case of C11 in raspimon.py: the ram device moved between two updates,
\* the disk did not.
C11_RamMoved ==
    /\ Len(reading) = 2 /\ SameRealCounters(2)
    /\ DOMAIN Val(reading[1].disk_io) = {sda, ram0}
    /\ DOMAIN Val(reading[2].disk_io) = {sda, ram0}
    /\ Val(reading[2].disk_io)[ram0].read_bytes
         > Val(reading[1].disk_io)[ram0].read_bytes
    /\ appended["disk_read"][2] = Float(0)

\* C12: DataStore.update runs only in the sampling step of an iteration, only
\* when the time read in that iteration minus the time of the previous tick
\* (or of the start of the loop) is at least REFRESH, at most once per
\* iteration, and it has returned when rendering starts: no two ticks belong
\* to the same iteration, and none runs during rendering, input handling or
\* the sleep.
C12_TickTiming ==
    /\ [][ticks' # ticks =>
            /\ pc = "sample" /\ pc' = "draw"
            /\ elapsed >= REFRESH_UNITS
            /\ ticks' = ticks + 1 /\ Len(outcome') = ticks'
            /\ iters' = iters]_vars
    /\ [](\A k \in 1..Len(before) :
             /\ before[k].elapsed >= REFRESH_UNITS
             /\ \A j \in 1..(k - 1) : before[j].iters < before[k].iters)

\* C12 witness: the first two iterations were not due for a tick (no time,
\* then half a period since the start of the loop), the third was, and its
\* tick was followed by the rendering.
C12_Witness ==
    /\ ticks = 1 /\ before[1].iters = 3 /\ iters = 3
    /\ pc = "input" /\ Called

\* The first non-zero reading of the sensor enumeration of the probes p, as a
\* Float; None when the enumeration failed or has no such entry.
FirstNonZeroSensor(p) ==
    IF IsNone(p.sensors) THEN None
    ELSE LET entries == Val(p.sensors)
             hits == { i \in 1..Len(entries) : entries[i] # 0 }
         IN  IF hits = {} THEN None
             ELSE Some(Float(entries[CHOOSE i \in hits : \A j \in hits : i <= j]))

\* C13: get_pi_temp returns the first non-zero sensor reading (None when
\* there is none) both when vcgencmd is absent and when vcgencmd is present
\* but its output does not parse.
C13_TempFallback ==
    \A k \in 1..Len(reading) :
        LET p == reading[k].probes
        IN  (~ p.vcgencmd \/ IsNone(p.measure_temp)) =>
                get_pi_temp(p) = FirstNonZeroSensor(p)

\* C14: whatever integer clock vcgencmd reports (zero, negative and above
\* max_clock included), get_gpu_usage returns a value within [0, 100], and so
\* is every value of the gpu series.
C14_GpuWithinRange ==
    /\ \A k \in 1..Len(reading) :
          LET g == get_gpu_usage(reading[k].probes)
          IN  ~ IsNone(g) => (Float(0) <= Val(g) /\ Val(g) <= Float(100))
    /\ \A i \in 1..Len(gpu) : Float(0) <= gpu[i] /\ gpu[i] <= Float(100)

C16_StoreFrame ==
    /\ [][(pc \in {"draw", "input", "sleep", "while"}) => UNCHANGED store]_vars
    /\ [][store' # store => (pc = "sample" /\ ticks' = ticks + 1)]_vars

\* C16 witness: after a tick, a render and a key that selected the next
\* widget have run.
C16_Witness ==
    /\ pc = "sleep" /\ ticks = 1 /\ Called
    /\ selected_widget = 1 /\ running

\* C17 as stated: for every non-empty sample sequence and width >= 1 the last
\* character of sparkline's output is the glyph of the last sample.
C17_LastSampleVisible ==
    (Called /\ width >= 1 /\ values # <<>>) => Last(Out) = GlyphOf(Len(values))

\* C17, amended: with n samples and stride = max(1, floor(n / width)), the last
\* character is the glyph of the last selected sample, the one at 0-based index
\* stride * floor((n - 1) / stride); that is the last sample exactly when
\* stride divides n - 1, and always when n < 2 * width.
C17_LastSelectedVisible ==
    (Called /\ width >= 1 /\ values # <<>>) =>
        LET n      == Len(values)
            stride == IF n \div width >= 1 THEN n \div width ELSE 1
            last   == stride * ((n - 1) \div stride)
        IN  /\ Last(Out) = GlyphOf(last + 1)
            /\ (last = n - 1) <=> ((n - 1) % stride = 0)
            /\ n < 2 * width => last = n - 1

\* C17 witness: 4 samples at width 2 (as 120 samples at width 60: stride 2);
\* the last sample, the only high one, is not drawn.
C17_Witness ==
    /\ Called
    /\ width = 2 /\ values = <<0, 0, 0, 7>>
    /\ Out = <<SPARK_CHARS[1], SPARK_CHARS[1]>>

RECURSIVE SeqSum(_)
SeqSum(q) == IF q = <<>> THEN 0 ELSE q[1] + SeqSum(Tail(q))

\* The network snapshot taken at construction, and the last one read
\* successfully (the one of construction when no read succeeded).
FirstNet == IF before = <<>> THEN prev_net ELSE before[1].prev_net
GoodNetReads == { k \in 1..Len(reading) : ~ IsNone(reading[k].net_io) }
LastGoodNet ==
    IF GoodNetReads = {} THEN FirstNet
    ELSE Val(reading[CHOOSE k \in GoodNetReads : \A j \in GoodNetReads : j <= k].net_io)

\* C18: network byte accounting telescopes: a failed read appends 0 and leaves
\* the stored snapshot alone, a successful read replaces it, and the sum over
\* all ticks of (appended rate * dt) is the counter of the last successfully
\* read snapshot minus the counter of the snapshot taken at construction, for
\* net_in with bytes_recv and for net_out with bytes_sent.
C18_NetTelescopes ==
    /\ prev_net = LastGoodNet
    /\ \A k \in 1..Len(reading) :
          IsNone(reading[k].net_io) =>
              appended["net_in"][k] = Float(0) /\ appended["net_out"][k] = Float(0)
    /\ RateTimesDtIs(SeqSum(appended["net_in"]),
                     LastGoodNet.bytes_recv - FirstNet.bytes_recv)
    /\ RateTimesDtIs(SeqSum(appended["net_out"]),
                     LastGoodNet.bytes_sent - FirstNet.bytes_sent)

\* C18 witness: a tick with traffic, then a tick whose read failed.
C18_Witness ==
    /\ Len(reading) = 2
    /\ before[1].prev_net = [bytes_recv |-> 1000, bytes_sent |-> 500]
    /\ reading[1].net_io = Some([bytes_recv |-> 1500, bytes_sent |-> 1000])
    /\ IsNone(reading[2].net_io)
    /\ appended["net_in"] = <<Float(1250), Float(0)>>
    /\ prev_net = [bytes_recv |-> 1500, bytes_sent |-> 1000]

=============================================================================
